---- MODULE Spec2Model ----
(***************************************************************************)
(* Model of Radix/wallet.py: the Wallet class, which connects a Provider   *)
(* (the ledger's JSON-RPC client) with a Signer and offers get_balances,   *)
(* get_balance_of_token and build_sign_and_send_transaction.               *)
(*                                                                         *)
(* A decoded JSON object (a Python dict) is a function whose DOMAIN is the *)
(* set of keys that are present; the empty dict is << >>.  A Python str    *)
(* that the code converts (the token amounts handed to int()) is a         *)
(* sequence of one-character strings.  The Provider's answers are chosen   *)
(* by the environment from the bounded sets below; the Signer is a         *)
(* deterministic function of its arguments.                                *)
(***************************************************************************)
EXTENDS Integers, Sequences, FiniteSets, TLC

VARIABLES wallet, calls

vars == <<wallet, calls>>

(***************************************************************************)
(* Bounds of the explored inputs.                                          *)
(***************************************************************************)
MaxTokens == 2
MaxActions == 2

(***************************************************************************)
(* Python values.                                                          *)
(***************************************************************************)
None == "<None>"
NoResponse == << >>
NoError == "<no error>"

Has(d, k) == k \in DOMAIN d

SeqsUpTo(S, n) == UNION {[1..k -> S] : k \in 0..n}

(***************************************************************************)
(* The input sets of the environment.                                      *)
(***************************************************************************)
Calls == {"c1", "c2"}
Networks == {"MAINNET", "STOKENET"}
Indexes == {0, 1}
ErrorPayloads == {"insufficient funds", "rate limited"}
RRIs == {"xrd", "btc"}
QueriedRRIs == {"xrd", "eth"}
\* amount texts: integer literals (with a leading zero, with a sign) and
\* texts that int() rejects
AmountStrings ==
    {<<"0">>, <<"7">>, <<"0", "1">>, <<"1", "0">>, <<"-", "1">>, <<"+", "7">>,
     << >>, <<"-">>, <<"1", "x">>}
Actions == {"transfer", "stake"}
FeePayers == {"rdx1payer"}
Messages == {None, "hello"}
Blobs == {"ab12", "cd34"}
Hashes == {"deadbeef", "cafe"}
TxIDs == {"TX1", "TX2", "", None}

TokenInfos == [rri : RRIs, amount : AmountStrings]
TokenBalanceLists == SeqsUpTo(TokenInfos, MaxTokens)

\* An envelope: an optional error key next to an optional result key.
Envelopes(results) ==
    LET errs == {NoResponse} \cup {[error |-> e] : e \in ErrorPayloads}
        ress == {NoResponse} \cup {[result |-> r] : r \in results}
    IN  {e @@ r : e \in errs, r \in ress}

BalanceResults == {NoResponse} \cup {[tokenBalances |-> l] : l \in TokenBalanceLists}
BalanceResponses == Envelopes(BalanceResults)


BuildTransactions ==
    LET bs == {NoResponse} \cup {[blob |-> b] : b \in Blobs}
        hs == {NoResponse} \cup {[hashOfBlobToSign |-> h] : h \in Hashes}
    IN  {b @@ h : b \in bs, h \in hs}
BuildResults == {NoResponse} \cup {[transaction |-> t] : t \in BuildTransactions}
BuildResponses == Envelopes(BuildResults)

FinalizeResults ==
    LET tops == {NoResponse} \cup {[txID |-> t] : t \in TxIDs}
        recs == {NoResponse} \cup {[txID |-> t] : t \in TxIDs}
        nests == {NoResponse} \cup {[transaction |-> n] : n \in recs}
    IN  {t @@ n : t \in tops, n \in nests}
FinalizeResponses == Envelopes(FinalizeResults)

(***************************************************************************)
(* Exceptions and the outcome of a call.  An exception is what the caller  *)
(* can observe of it: its type, the fixed text of its message, the key of  *)
(* a failed subscript, and the value the message interpolates.             *)
(***************************************************************************)
NoExc == [type |-> "", text |-> "", key |-> "", response |-> NoResponse, error |-> NoError]

TextBalances == "Encountered an error when trying to get the balances"
TextBuild == "An error was encountered while building the transaction. Error"
TextFinalize == "An error has occured when finalizing the transaction"
TextInt == "invalid literal for int() with base 10"

\* dict[key] on a dict without that key
MissingKey(k) == [NoExc EXCEPT !.type = "KeyError", !.key = k]

NoOutcome ==
    [status |-> "none", exc |-> NoExc, balances |-> << >>, amount |-> 0, txid |-> None]
Raised(e) == [NoOutcome EXCEPT !.status = "raised", !.exc = e]

(***************************************************************************)
(* int(str): an optional sign followed by one or more decimal digits.      *)
(* (Surrounding blanks and underscores between digits, which int() also    *)
(* accepts, are not among the amount texts above.)                         *)
(***************************************************************************)
DigitChars == <<"0", "1", "2", "3", "4", "5", "6", "7", "8", "9">>
Digits == {DigitChars[i] : i \in DOMAIN DigitChars}
DigitVal(ch) == (CHOOSE i \in DOMAIN DigitChars : DigitChars[i] = ch) - 1
Signs == {"-", "+"}

IsIntLiteral(s) ==
    /\ Len(s) >= 1
    /\ LET body == IF s[1] \in Signs THEN Tail(s) ELSE s
       IN  /\ Len(body) >= 1
           /\ \A i \in 1..Len(body) : body[i] \in Digits

RECURSIVE DecVal(_)
DecVal(s) ==
    IF s = << >> THEN 0
    ELSE 10 * DecVal(SubSeq(s, 1, Len(s) - 1)) + DigitVal(s[Len(s)])

int(s) ==
    IF s[1] = "-" THEN 0 - DecVal(Tail(s))
    ELSE IF s[1] = "+" THEN DecVal(Tail(s))
    ELSE DecVal(s)

(***************************************************************************)
(* Wallet.get_balances, lines 74-80, on a decoded response.  `reads` is    *)
(* the sequence of keys of the response that were subscripted.             *)
(***************************************************************************)
\* DictComp iterating over l[1:], the first entry skipped
RECURSIVE DictComp_skip_first(_)
DictComp_skip_first(l) ==
    IF Len(l) <= 1 THEN << >>
    ELSE LET init == DictComp_skip_first(SubSeq(l, 1, Len(l) - 1))
             last == l[Len(l)]
         IN  [k \in DOMAIN init \cup {last.rri} |->
                 IF k = last.rri THEN int(last.amount) ELSE init[k]]

\* DictComp adding up the amounts of the entries with the same RRI
RECURSIVE DictComp_sum(_)
DictComp_sum(l) ==
    IF l = << >> THEN << >>
    ELSE LET init == DictComp_sum(SubSeq(l, 1, Len(l) - 1))
             last == l[Len(l)]
         IN  [k \in DOMAIN init \cup {last.rri} |->
                 IF k = last.rri
                 THEN (IF Has(init, k) THEN init[k] ELSE 0) + int(last.amount)
                 ELSE init[k]]

\* {token_info['rri']: int(token_info['amount']) for token_info in l}:
\* entries are stored in list order, a later entry replacing an earlier
\* one with the same key.
RECURSIVE DictComp(_)
DictComp(l) ==
    IF l = << >> THEN << >>
    ELSE LET init == DictComp(SubSeq(l, 1, Len(l) - 1))
             last == l[Len(l)]
         IN  [k \in DOMAIN init \cup {last.rri} |->
                 IF k = last.rri THEN int(last.amount) ELSE init[k]]

\* get_balances reading the token list before it looks for the error key
get_balances_late_check(response) ==
    IF ~Has(response, "result")
    THEN [out |-> Raised(MissingKey("result")), reads |-> <<"result">>]
    ELSE IF ~Has(response.result, "tokenBalances")
    THEN [out |-> Raised(MissingKey("tokenBalances")),
          reads |-> <<"result", "tokenBalances">>]
    ELSE IF Has(response, "error")
    THEN [out |-> Raised([NoExc EXCEPT !.type = "KeyError", !.text = TextBalances,
                                       !.response = response]),
          reads |-> <<"result", "tokenBalances">>]
    ELSE LET l == response.result.tokenBalances
         IN  IF \E i \in 1..Len(l) : ~IsIntLiteral(l[i].amount)
             THEN [out |-> Raised([NoExc EXCEPT !.type = "ValueError", !.text = TextInt]),
                   reads |-> <<"result", "tokenBalances">>]
             ELSE [out |-> [NoOutcome EXCEPT !.status = "returned",
                                             !.balances = DictComp(l)],
                   reads |-> <<"result", "tokenBalances">>]

get_balances(response) ==
    IF Has(response, "error")
    THEN [out |-> Raised([NoExc EXCEPT !.type = "KeyError", !.text = TextBalances,
                                       !.response = response]),
          reads |-> << >>]
    ELSE IF ~Has(response, "result")
    THEN [out |-> Raised(MissingKey("result")), reads |-> <<"result">>]
    ELSE IF ~Has(response.result, "tokenBalances")
    THEN [out |-> Raised(MissingKey("tokenBalances")),
          reads |-> <<"result", "tokenBalances">>]
    ELSE LET l == response.result.tokenBalances
         IN  IF \E i \in 1..Len(l) : ~IsIntLiteral(l[i].amount)
             THEN [out |-> Raised([NoExc EXCEPT !.type = "ValueError", !.text = TextInt]),
                   reads |-> <<"result", "tokenBalances">>]
             ELSE [out |-> [NoOutcome EXCEPT !.status = "returned",
                                             !.balances = DictComp(l)],
                   reads |-> <<"result", "tokenBalances">>]

\* get_balance_of_token subscripting the mapping: self.get_balances()[token_rri]
get_balance_of_token_subscript(balances_out, token_rri) ==
    IF balances_out.status = "raised" THEN balances_out
    ELSE IF ~Has(balances_out.balances, token_rri) THEN Raised(MissingKey(token_rri))
    ELSE [NoOutcome EXCEPT !.status = "returned",
                           !.amount = balances_out.balances[token_rri]]

\* Wallet.get_balance_of_token, lines 98-100, on the outcome of get_balances
get_balance_of_token(balances_out, token_rri) ==
    IF balances_out.status = "raised" THEN balances_out
    ELSE LET balances == balances_out.balances
             absent == ~Has(balances, token_rri)
         IN  [NoOutcome EXCEPT !.status = "returned",
                               !.amount = IF absent THEN 0 ELSE balances[token_rri]]

(***************************************************************************)
(* Wallet.build_sign_and_send_transaction on its decoded responses.        *)
(***************************************************************************)
\* build_phase without the check of line 140
build_phase_unchecked(response) ==
    LET fail(e, r) == [out |-> Raised(e), reads |-> r, blob |-> "",
                       hash_of_blob_to_sign |-> ""]
    IN  IF ~Has(response, "result")
        THEN fail(MissingKey("result"), <<"result">>)
        ELSE IF ~Has(response.result, "transaction")
        THEN fail(MissingKey("transaction"), <<"result", "transaction">>)
        ELSE IF ~Has(response.result.transaction, "blob")
        THEN fail(MissingKey("blob"), <<"result", "transaction", "blob">>)
        ELSE IF ~Has(response.result.transaction, "hashOfBlobToSign")
        THEN fail(MissingKey("hashOfBlobToSign"),
                  <<"result", "transaction", "blob",
                    "result", "transaction", "hashOfBlobToSign">>)
        ELSE [out |-> NoOutcome,
              reads |-> <<"result", "transaction", "blob",
                          "result", "transaction", "hashOfBlobToSign">>,
              blob |-> response.result.transaction.blob,
              hash_of_blob_to_sign |-> response.result.transaction.hashOfBlobToSign]

\* build_phase extracting with dict.get(key, ''): an absent blob or digest
\* becomes the empty string
build_phase_defaults(response) ==
    IF Has(response, "error")
    THEN [out |-> Raised([NoExc EXCEPT !.type = "KeyError", !.text = TextBuild,
                                       !.response = response]),
          reads |-> << >>, blob |-> "", hash_of_blob_to_sign |-> ""]
    ELSE LET transaction ==
                 IF Has(response, "result") /\ Has(response.result, "transaction")
                 THEN response.result.transaction ELSE << >>
         IN  [out |-> NoOutcome,
              reads |-> <<"result", "transaction", "blob",
                          "result", "transaction", "hashOfBlobToSign">>,
              blob |-> IF Has(transaction, "blob") THEN transaction.blob ELSE "",
              hash_of_blob_to_sign |->
                  IF Has(transaction, "hashOfBlobToSign")
                  THEN transaction.hashOfBlobToSign ELSE ""]

\* build_phase raising at line 141 with the fixed text only
build_phase_no_payload(response) ==
    IF Has(response, "error")
    THEN [out |-> Raised([NoExc EXCEPT !.type = "KeyError", !.text = TextBuild]),
          reads |-> << >>, blob |-> "", hash_of_blob_to_sign |-> ""]
    ELSE build_phase_unchecked(response)

\* lines 140-145: the check of the build response and the two extractions
build_phase(response) ==
    LET fail(e, r) == [out |-> Raised(e), reads |-> r, blob |-> "",
                       hash_of_blob_to_sign |-> ""]
    IN  IF Has(response, "error")
        THEN fail([NoExc EXCEPT !.type = "KeyError", !.text = TextBuild,
                                !.response = response], << >>)
        ELSE IF ~Has(response, "result")
        THEN fail(MissingKey("result"), <<"result">>)
        ELSE IF ~Has(response.result, "transaction")
        THEN fail(MissingKey("transaction"), <<"result", "transaction">>)
        ELSE IF ~Has(response.result.transaction, "blob")
        THEN fail(MissingKey("blob"), <<"result", "transaction", "blob">>)
        ELSE IF ~Has(response.result.transaction, "hashOfBlobToSign")
        THEN fail(MissingKey("hashOfBlobToSign"),
                  <<"result", "transaction", "blob",
                    "result", "transaction", "hashOfBlobToSign">>)
        ELSE [out |-> NoOutcome,
              reads |-> <<"result", "transaction", "blob",
                          "result", "transaction", "hashOfBlobToSign">>,
              blob |-> response.result.transaction.blob,
              hash_of_blob_to_sign |-> response.result.transaction.hashOfBlobToSign]

\* extract_txid trying the nested transaction record first
extract_txid_nested_first(response) ==
    LET ret(t, r) == [out |-> [NoOutcome EXCEPT !.status = "returned", !.txid = t],
                      reads |-> r]
    IN  IF ~Has(response, "result")
        THEN [out |-> Raised(MissingKey("result")), reads |-> <<"result", "result">>]
        ELSE IF Has(response.result, "transaction")
                /\ Has(response.result.transaction, "txID")
        THEN ret(response.result.transaction.txID, <<"result", "transaction", "txID">>)
        ELSE IF Has(response.result, "txID")
        THEN ret(response.result.txID, <<"result", "transaction", "result", "txID">>)
        ELSE [out |-> Raised(MissingKey("txID")),
              reads |-> <<"result", "transaction", "result", "txID">>]

\* extract_txid with dict.get in the fallback: None when there is no identifier
extract_txid_sentinel(response) ==
    LET ret(t, r) == [out |-> [NoOutcome EXCEPT !.status = "returned", !.txid = t],
                      reads |-> r]
    IN  IF Has(response, "result") /\ Has(response.result, "txID")
        THEN ret(response.result.txID, <<"result", "txID">>)
        ELSE IF /\ Has(response, "result")
                /\ Has(response.result, "transaction")
                /\ Has(response.result.transaction, "txID")
        THEN ret(response.result.transaction.txID,
                 <<"result", "txID", "result", "transaction", "txID">>)
        ELSE ret(None, <<"result", "txID", "result", "transaction", "txID">>)

\* extract_txid with result.get('txID') or the nested txID: a null or
\* empty top-level value falls back to the nested record
extract_txid_truthy(response) ==
    LET ret(t, r) == [out |-> [NoOutcome EXCEPT !.status = "returned", !.txid = t],
                      reads |-> r]
    IN  IF ~Has(response, "result")
        THEN [out |-> Raised(MissingKey("result")), reads |-> <<"result", "result">>]
        ELSE IF Has(response.result, "txID") /\ response.result.txID \notin {"", None}
        THEN ret(response.result.txID, <<"result", "txID">>)
        ELSE IF ~Has(response.result, "transaction")
        THEN [out |-> Raised(MissingKey("transaction")),
              reads |-> <<"result", "txID", "result", "transaction">>]
        ELSE IF ~Has(response.result.transaction, "txID")
        THEN [out |-> Raised(MissingKey("txID")),
              reads |-> <<"result", "txID", "result", "transaction", "txID">>]
        ELSE ret(response.result.transaction.txID,
                 <<"result", "txID", "result", "transaction", "txID">>)

\* lines 159-162: response['result']['txID'], and on any exception
\* response['result']['transaction']['txID']
extract_txid(response) ==
    LET ret(t, r) == [out |-> [NoOutcome EXCEPT !.status = "returned", !.txid = t],
                      reads |-> r]
    IN  IF ~Has(response, "result")
        THEN [out |-> Raised(MissingKey("result")), reads |-> <<"result", "result">>]
        ELSE IF Has(response.result, "txID")
        THEN ret(response.result.txID, <<"result", "txID">>)
        ELSE IF ~Has(response.result, "transaction")
        THEN [out |-> Raised(MissingKey("transaction")),
              reads |-> <<"result", "txID", "result", "transaction">>]
        ELSE IF ~Has(response.result.transaction, "txID")
        THEN [out |-> Raised(MissingKey("txID")),
              reads |-> <<"result", "txID", "result", "transaction", "txID">>]
        ELSE ret(response.result.transaction.txID,
                 <<"result", "txID", "result", "transaction", "txID">>)

\* finalize_phase without the check of line 156
finalize_phase_unchecked(response) == extract_txid(response)

\* lines 156-162: the check of the finalize response and the extraction
finalize_phase(response) ==
    IF Has(response, "error")
    THEN [out |-> Raised([NoExc EXCEPT !.type = "Exception", !.text = TextFinalize,
                                       !.error = response.error]),
          reads |-> <<"error">>]
    ELSE extract_txid(response)

(***************************************************************************)
(* The Signer: deterministic functions of the key it holds and of their    *)
(* arguments.                                                              *)
(***************************************************************************)
Signers == {"key1"}
NoSignature == << >>
sign(signer, data, index) == <<"signature", signer, data, index>>
public_key(signer, index) == <<"public key", signer, index>>
wallet_address(signer, index, mainnet) == <<"address", signer, index, mainnet>>

(***************************************************************************)
(* State: the wallet (lines 38-40) and the calls in progress.  `log` is    *)
(* the sequence of calls a call has made to the Provider and the Signer,   *)
(* with their keyword arguments and what they returned.                    *)
(***************************************************************************)
IdleCall ==
    [op |-> "idle", pc |-> "idle",
     actions |-> << >>, fee_payer |-> "", message |-> None, encrypt_message |-> FALSE,
     token_rri |-> "",
     response |-> NoResponse, blob |-> "", hash_of_blob_to_sign |-> "",
     signed_data |-> NoSignature,
     out |-> NoOutcome, reads |-> << >>, log |-> << >>]

Init ==
    /\ wallet \in [provider : [network : Networks], signer : Signers, index : Indexes]
    /\ calls = [c \in Calls |-> IdleCall]

\* the provider and signer calls of lines 67-72
FetchLog(w) ==
    LET mainnet == IF w.provider.network = "MAINNET" THEN TRUE ELSE FALSE
        address == wallet_address(w.signer, w.index, mainnet)
    IN  <<[fn |-> "wallet_address", kw |-> [index |-> w.index, mainnet |-> mainnet]],
          [fn |-> "get_balances", kw |-> [address |-> address]]>>

\* get_balances answering from the response that an earlier call fetched
GetBalances_cached(c) ==
    /\ calls[c].pc = "idle"
    /\ \E response \in BalanceResponses, cached \in BalanceResponses :
          LET r == get_balances(cached)
          IN  calls' = [calls EXCEPT ![c] =
                  [IdleCall EXCEPT !.op = "get_balances", !.pc = "done",
                                   !.response = response, !.out = r.out,
                                   !.reads = r.reads, !.log = FetchLog(wallet)]]
    /\ UNCHANGED wallet

\* Wallet.get_balances, lines 67-80
GetBalances(c) ==
    /\ calls[c].pc = "idle"
    /\ \E response \in BalanceResponses :
          LET r == get_balances(response)
          IN  calls' = [calls EXCEPT ![c] =
                  [IdleCall EXCEPT !.op = "get_balances", !.pc = "done",
                                   !.response = response, !.out = r.out,
                                   !.reads = r.reads, !.log = FetchLog(wallet)]]
    /\ UNCHANGED wallet

\* Wallet.get_balance_of_token, lines 98-100, with its call of get_balances
GetBalanceOfToken(c) ==
    /\ calls[c].pc = "idle"
    /\ \E token_rri \in QueriedRRIs, response \in BalanceResponses :
          LET r == get_balances(response)
          IN  calls' = [calls EXCEPT ![c] =
                  [IdleCall EXCEPT !.op = "get_balance_of_token", !.pc = "done",
                                   !.token_rri = token_rri,
                                   !.response = response,
                                   !.out = get_balance_of_token(r.out, token_rri),
                                   !.reads = r.reads, !.log = FetchLog(wallet)]]
    /\ UNCHANGED wallet

\* lines 134-145 handing the actions to build_transaction in reverse order
BuildTransaction_reversed(c) ==
    /\ calls[c].pc = "idle"
    /\ \E actions \in SeqsUpTo(Actions, MaxActions), fee_payer \in FeePayers,
          message \in Messages, encrypt_message \in BOOLEAN,
          response \in BuildResponses :
          LET r == build_phase(response)
              sent == [i \in 1..Len(actions) |-> actions[Len(actions) + 1 - i]]
          IN  calls' = [calls EXCEPT ![c] =
                  [IdleCall EXCEPT
                      !.op = "build_sign_and_send_transaction",
                      !.pc = IF r.out.status = "raised" THEN "done" ELSE "sign",
                      !.actions = actions, !.fee_payer = fee_payer,
                      !.message = message, !.encrypt_message = encrypt_message,
                      !.response = response, !.blob = r.blob,
                      !.hash_of_blob_to_sign = r.hash_of_blob_to_sign,
                      !.out = r.out, !.reads = r.reads,
                      !.log = <<[fn |-> "build_transaction",
                                 kw |-> [actions |-> sent, fee_payer |-> fee_payer,
                                         message |-> message],
                                 ret |-> response]>>]]
    /\ UNCHANGED wallet

\* lines 134-145 going on to finalize without the signing of line 146
BuildTransaction_skip_sign(c) ==
    /\ calls[c].pc = "idle"
    /\ \E actions \in SeqsUpTo(Actions, MaxActions), fee_payer \in FeePayers,
          message \in Messages, encrypt_message \in BOOLEAN,
          response \in BuildResponses :
          LET r == build_phase(response)
          IN  calls' = [calls EXCEPT ![c] =
                  [IdleCall EXCEPT
                      !.op = "build_sign_and_send_transaction",
                      !.pc = IF r.out.status = "raised" THEN "done" ELSE "finalize",
                      !.actions = actions, !.fee_payer = fee_payer,
                      !.message = message, !.encrypt_message = encrypt_message,
                      !.response = response, !.blob = r.blob,
                      !.hash_of_blob_to_sign = r.hash_of_blob_to_sign,
                      !.out = r.out, !.reads = r.reads,
                      !.log = <<[fn |-> "build_transaction",
                                 kw |-> [actions |-> actions, fee_payer |-> fee_payer,
                                         message |-> message],
                                 ret |-> response]>>]]
    /\ UNCHANGED wallet

\* Wallet.build_sign_and_send_transaction, lines 134-145
BuildTransaction(c) ==
    /\ calls[c].pc = "idle"
    /\ \E actions \in SeqsUpTo(Actions, MaxActions), fee_payer \in FeePayers,
          message \in Messages, encrypt_message \in BOOLEAN,
          response \in BuildResponses :
          LET r == build_phase(response)
          IN  calls' = [calls EXCEPT ![c] =
                  [IdleCall EXCEPT
                      !.op = "build_sign_and_send_transaction",
                      !.pc = IF r.out.status = "raised" THEN "done" ELSE "sign",
                      !.actions = actions, !.fee_payer = fee_payer,
                      !.message = message, !.encrypt_message = encrypt_message,
                      !.response = response, !.blob = r.blob,
                      !.hash_of_blob_to_sign = r.hash_of_blob_to_sign,
                      !.out = r.out, !.reads = r.reads,
                      !.log = <<[fn |-> "build_transaction",
                                 kw |-> [actions |-> actions, fee_payer |-> fee_payer,
                                         message |-> message],
                                 ret |-> response]>>]]
    /\ UNCHANGED wallet

\* line 146 signing the blob instead of the digest
SignTransaction_blob(c) ==
    /\ calls[c].pc = "sign"
    /\ LET signed_data == sign(wallet.signer, calls[c].blob, wallet.index)
       IN  calls' = [calls EXCEPT
               ![c].pc = "finalize",
               ![c].signed_data = signed_data,
               ![c].log = Append(@, [fn |-> "sign",
                                     kw |-> [data |-> calls[c].blob,
                                             index |-> wallet.index],
                                     ret |-> signed_data])]
    /\ UNCHANGED wallet

\* line 146 signing a digest kept where every call of the wallet writes
\* it: the digest of any call that has built
SignTransaction_shared(c) ==
    /\ calls[c].pc = "sign"
    /\ \E d \in Calls :
          /\ calls[d].hash_of_blob_to_sign # ""
          /\ LET signed_data ==
                     sign(wallet.signer, calls[d].hash_of_blob_to_sign, wallet.index)
             IN  calls' = [calls EXCEPT
                     ![c].pc = "finalize",
                     ![c].signed_data = signed_data,
                     ![c].log = Append(@, [fn |-> "sign",
                                           kw |-> [data |-> calls[d].hash_of_blob_to_sign,
                                                   index |-> wallet.index],
                                           ret |-> signed_data])]
    /\ UNCHANGED wallet

\* line 146
SignTransaction(c) ==
    /\ calls[c].pc = "sign"
    /\ LET signed_data == sign(wallet.signer, calls[c].hash_of_blob_to_sign, wallet.index)
       IN  calls' = [calls EXCEPT
               ![c].pc = "finalize",
               ![c].signed_data = signed_data,
               ![c].log = Append(@, [fn |-> "sign",
                                     kw |-> [data |-> calls[c].hash_of_blob_to_sign,
                                             index |-> wallet.index],
                                     ret |-> signed_data])]
    /\ UNCHANGED wallet

\* lines 149-162 asking for the public key without index = self.index
FinalizeTransaction_default_key(c) ==
    /\ calls[c].pc = "finalize"
    /\ \E response \in FinalizeResponses :
          LET public_key_of_signer == public_key(wallet.signer, 0)
              r == finalize_phase(response)
          IN  calls' = [calls EXCEPT
                  ![c].pc = "done",
                  ![c].response = response,
                  ![c].out = r.out,
                  ![c].reads = r.reads,
                  ![c].log = @ \o
                      <<[fn |-> "public_key", kw |-> [index |-> 0],
                         ret |-> public_key_of_signer],
                        [fn |-> "finalize_transaction",
                         kw |-> [blob |-> calls[c].blob,
                                 signature_der |-> calls[c].signed_data,
                                 public_key_of_signer |-> public_key_of_signer,
                                 immediateSubmit |-> TRUE],
                         ret |-> response]>>]
    /\ UNCHANGED wallet

\* lines 149-162 sending the finalize request a second time when the
\* first response holds an error key
FinalizeTransaction_retry(c) ==
    /\ calls[c].pc = "finalize"
    /\ \E first \in FinalizeResponses, response \in FinalizeResponses :
          LET public_key_of_signer == public_key(wallet.signer, wallet.index)
              r == finalize_phase(response)
              request(ret) ==
                  [fn |-> "finalize_transaction",
                   kw |-> [blob |-> calls[c].blob,
                           signature_der |-> calls[c].signed_data,
                           public_key_of_signer |-> public_key_of_signer,
                           immediateSubmit |-> TRUE],
                   ret |-> ret]
          IN  calls' = [calls EXCEPT
                  ![c].pc = "done",
                  ![c].response = response,
                  ![c].out = r.out,
                  ![c].reads = r.reads,
                  ![c].log = @ \o
                      <<[fn |-> "public_key", kw |-> [index |-> wallet.index],
                         ret |-> public_key_of_signer]>> \o
                      (IF Has(first, "error") THEN <<request(first)>> ELSE << >>) \o
                      <<request(response)>>]
    /\ UNCHANGED wallet

\* lines 149-162
FinalizeTransaction(c) ==
    /\ calls[c].pc = "finalize"
    /\ \E response \in FinalizeResponses :
          LET public_key_of_signer == public_key(wallet.signer, wallet.index)
              r == finalize_phase(response)
          IN  calls' = [calls EXCEPT
                  ![c].pc = "done",
                  ![c].response = response,
                  ![c].out = r.out,
                  ![c].reads = r.reads,
                  ![c].log = @ \o
                      <<[fn |-> "public_key", kw |-> [index |-> wallet.index],
                         ret |-> public_key_of_signer],
                        [fn |-> "finalize_transaction",
                         kw |-> [blob |-> calls[c].blob,
                                 signature_der |-> calls[c].signed_data,
                                 public_key_of_signer |-> public_key_of_signer,
                                 immediateSubmit |-> TRUE],
                         ret |-> response]>>]
    /\ UNCHANGED wallet

\* the call has returned or raised; its locals are gone
Return(c) ==
    /\ calls[c].pc = "done"
    /\ calls' = [calls EXCEPT ![c] = IdleCall]
    /\ UNCHANGED wallet

\* Calls made one after another: a call starts when no other is in progress.
Alone(c) == \A d \in Calls \ {c} : calls[d].pc = "idle"

Next ==
    \/ \E c \in Calls : Alone(c) /\ GetBalances(c)
    \/ \E c \in Calls : Alone(c) /\ GetBalanceOfToken(c)
    \/ \E c \in Calls : Alone(c) /\ BuildTransaction(c)
    \/ \E c \in Calls : SignTransaction(c)
    \/ \E c \in Calls : FinalizeTransaction(c)
    \/ \E c \in Calls : Return(c)

Spec == Init /\ [][Next]_vars

(***************************************************************************)
(* Several callers on the same wallet: the calls of                        *)
(* build_sign_and_send_transaction interleave at their Provider and        *)
(* Signer calls.  The inputs are a part of those of Spec.                  *)
(***************************************************************************)
InterleavedActions == {<<"transfer">>, <<"stake", "transfer">>}
InterleavedBuildResponses ==
    {[error |-> "rate limited"]} \cup
    {[result |-> [transaction |-> [blob |-> b, hashOfBlobToSign |-> h]]] :
        b \in Blobs, h \in Hashes}
InterleavedFinalizeResponses ==
    {[error |-> "rate limited"],
     [result |-> << >>],
     [result |-> [txID |-> "TX1"]],
     [result |-> [txID |-> "TX2"]],
     [result |-> [transaction |-> [txID |-> "TX2"]]]}

NextInterleaved ==
    \/ \E c \in Calls :
          /\ BuildTransaction(c)
          /\ calls'[c].actions \in InterleavedActions
          /\ calls'[c].message = None
          /\ calls'[c].encrypt_message = FALSE
          /\ calls'[c].response \in InterleavedBuildResponses
    \/ \E c \in Calls : SignTransaction(c)
    \/ \E c \in Calls :
          /\ FinalizeTransaction(c)
          /\ calls'[c].response \in InterleavedFinalizeResponses
    \/ \E c \in Calls : Return(c)

SpecInterleaved == Init /\ [][NextInterleaved]_vars

(***************************************************************************)
(* Vocabulary of the properties.                                           *)
(***************************************************************************)
Submit == "build_sign_and_send_transaction"
Done(c) == calls[c].pc = "done"
LogOf(c, fn) == SelectSeq(calls[c].log, LAMBDA e : e.fn = fn)
Called(c, fn) == LogOf(c, fn) # << >>
\* the response a submit call got from build_transaction
BuildResponseOf(c) == calls[c].log[1].ret
Built(c) == calls[c].op = Submit
Finalized(c) == calls[c].op = Submit /\ Called(c, "finalize_transaction")
FinalizeResponseOf(c) == LogOf(c, "finalize_transaction")[1].ret

\* RemoteError: the exception raised because the envelope has an error key
RemoteError(out, text) == out.status = "raised" /\ out.exc.text = text
\* MalformedResponse: the exception of a subscript with a missing key
MalformedResponse(out, keys) ==
    out.status = "raised" /\ out.exc.type = "KeyError" /\ out.exc.text = ""
                          /\ out.exc.key \in keys

\* C1: a submit whose build response has an error key fails with the
\* build-phase error and calls neither Signer.sign, Signer.public_key nor
\* finalize_transaction.
C1_BuildErrorStopsSubmit ==
    \A c \in Calls :
        (Built(c) /\ Has(BuildResponseOf(c), "error")) =>
            /\ Done(c)
            /\ RemoteError(calls[c].out, TextBuild)
            /\ calls[c].out.exc.type = "KeyError"
            /\ ~Called(c, "sign")
            /\ ~Called(c, "public_key")
            /\ ~Called(c, "finalize_transaction")

\* a build response with an error key next to a complete result
C1_Witness ==
    \E c \in Calls :
        /\ Built(c) /\ Done(c)
        /\ Has(BuildResponseOf(c), "error")
        /\ Has(BuildResponseOf(c), "result")
        /\ build_phase([result |-> BuildResponseOf(c).result]).out.status = "none"

C3_ReturnsIdentifier ==
    \A c \in Calls :
        (/\ Finalized(c)
         /\ ~Has(FinalizeResponseOf(c), "error")
         /\ Has(FinalizeResponseOf(c), "result")) =>
            LET result == FinalizeResponseOf(c).result
            IN  /\ Has(result, "txID") =>
                      /\ calls[c].out.status = "returned"
                      /\ calls[c].out.txid = result.txID
                /\ (/\ ~Has(result, "txID")
                    /\ Has(result, "transaction")
                    /\ Has(result.transaction, "txID")) =>
                      /\ calls[c].out.status = "returned"
                      /\ calls[c].out.txid = result.transaction.txID

\* the identifier came from the nested transaction record
C3_Witness ==
    \E c \in Calls :
        /\ Finalized(c) /\ Done(c)
        /\ ~Has(FinalizeResponseOf(c), "error")
        /\ Has(FinalizeResponseOf(c), "result")
        /\ ~Has(FinalizeResponseOf(c).result, "txID")
        /\ Has(FinalizeResponseOf(c).result, "transaction")
        /\ Has(FinalizeResponseOf(c).result.transaction, "txID")
        /\ calls[c].out.txid = "TX2"

\* the finalize response holds an identifier in one of the two shapes
HasIdentifier(response) ==
    /\ Has(response, "result")
    /\ \/ Has(response.result, "txID")
       \/ /\ Has(response.result, "transaction")
          /\ Has(response.result.transaction, "txID")

\* C4: on a finalize success envelope with an identifier in neither shape
\* submit fails with the error of a missing key and returns nothing.
C4_NoIdentifierFails ==
    \A c \in Calls :
        (/\ Finalized(c)
         /\ ~Has(FinalizeResponseOf(c), "error")
         /\ ~HasIdentifier(FinalizeResponseOf(c))) =>
            /\ Done(c)
            /\ MalformedResponse(calls[c].out, {"result", "transaction", "txID"})
            /\ calls[c].out.status # "returned"
            /\ calls[c].out.txid = None

\* a result with a transaction record that has no txID
C4_Witness ==
    \E c \in Calls :
        /\ Finalized(c) /\ Done(c)
        /\ ~Has(FinalizeResponseOf(c), "error")
        /\ Has(FinalizeResponseOf(c), "result")
        /\ ~Has(FinalizeResponseOf(c).result, "txID")
        /\ Has(FinalizeResponseOf(c).result, "transaction")
        /\ ~Has(FinalizeResponseOf(c).result.transaction, "txID")

\* C5: Signer.sign is called with the hashOfBlobToSign of the build
\* response of the same call and with the wallet's index.
C5_SignsTheBuiltDigest ==
    \A c \in Calls :
        \A i \in DOMAIN calls[c].log :
            calls[c].log[i].fn = "sign" =>
                /\ calls[c].log[i].kw.data =
                       BuildResponseOf(c).result.transaction.hashOfBlobToSign
                /\ calls[c].log[i].kw.index = wallet.index

\* signed with index 1, a blob and a digest in the build response
C5_Witness ==
    \E c \in Calls :
        /\ Called(c, "sign")
        /\ wallet.index = 1
        /\ BuildResponseOf(c).result.transaction.hashOfBlobToSign = "cafe"
        /\ BuildResponseOf(c).result.transaction.blob = "ab12"

\* C6: finalize_transaction is called with the blob of the build response,
\* the signature Signer.sign returned, the public key of the index that
\* was signed with, and immediateSubmit = True.
C6_FinalizeArguments ==
    \A c \in Calls :
        \A i \in DOMAIN calls[c].log :
            calls[c].log[i].fn = "finalize_transaction" =>
                LET kw == calls[c].log[i].kw
                    signing == LogOf(c, "sign")
                IN  /\ Len(signing) = 1
                    /\ kw.blob = BuildResponseOf(c).result.transaction.blob
                    /\ kw.signature_der = signing[1].ret
                    /\ kw.public_key_of_signer =
                           public_key(wallet.signer, signing[1].kw.index)
                    /\ kw.immediateSubmit = TRUE

\* finalized with index 1
C6_Witness ==
    \E c \in Calls :
        /\ Finalized(c)
        /\ wallet.index = 1
        /\ BuildResponseOf(c).result.transaction.blob = "cd34"

\* the build response holds both the blob and the digest
HasBlobAndDigest(response) ==
    /\ Has(response, "result")
    /\ Has(response.result, "transaction")
    /\ Has(response.result.transaction, "blob")
    /\ Has(response.result.transaction, "hashOfBlobToSign")

\* C7: on a build success envelope without blob or without
\* hashOfBlobToSign submit fails with the error of a missing key and calls
\* neither the Signer nor finalize_transaction.
C7_IncompleteBuildFails ==
    \A c \in Calls :
        (/\ Built(c)
         /\ ~Has(BuildResponseOf(c), "error")
         /\ ~HasBlobAndDigest(BuildResponseOf(c))) =>
            /\ Done(c)
            /\ MalformedResponse(calls[c].out,
                   {"result", "transaction", "blob", "hashOfBlobToSign"})
            /\ ~Called(c, "sign")
            /\ ~Called(c, "public_key")
            /\ ~Called(c, "finalize_transaction")

\* a blob without its digest
C7_Witness ==
    \E c \in Calls :
        /\ Built(c) /\ Done(c)
        /\ ~Has(BuildResponseOf(c), "error")
        /\ Has(BuildResponseOf(c), "result")
        /\ Has(BuildResponseOf(c).result, "transaction")
        /\ Has(BuildResponseOf(c).result.transaction, "blob")
        /\ ~Has(BuildResponseOf(c).result.transaction, "hashOfBlobToSign")

\* the message text of the error-key failure of the response a call holds
PhaseText(c) ==
    IF calls[c].op \in {"get_balances", "get_balance_of_token"} THEN TextBalances
    ELSE IF Called(c, "finalize_transaction") THEN TextFinalize
    ELSE TextBuild

\* C8: after each of the three remote calls a response with an error key
\* makes the operation fail with the error-key failure of that phase,
\* whatever else the response holds, and no key of the response other
\* than error has been subscripted.
C8_ErrorKeyIsAuthoritative ==
    \A c \in Calls :
        (calls[c].op # "idle" /\ Has(calls[c].response, "error")) =>
            /\ Done(c)
            /\ RemoteError(calls[c].out, PhaseText(c))
            /\ \A i \in DOMAIN calls[c].reads : calls[c].reads[i] = "error"

\* a balance response with an error key next to a well-formed result
C8_Witness ==
    \E c \in Calls :
        /\ calls[c].op = "get_balances" /\ Done(c)
        /\ Has(calls[c].response, "error")
        /\ Has(calls[c].response, "result")
        /\ get_balances([result |-> calls[c].response.result]).out.status = "returned"

\* the permutations of a list
Reorderings(l) ==
    {[i \in 1..Len(l) |-> l[p[i]]] :
        p \in {q \in [1..Len(l) -> 1..Len(l)] :
                  \A i, j \in 1..Len(l) : q[i] = q[j] => i = j}}

\* a success response whose entries have distinct RRIs and integer amounts
DistinctBalances(response) ==
    /\ ~Has(response, "error")
    /\ Has(response, "result")
    /\ Has(response.result, "tokenBalances")
    /\ LET l == response.result.tokenBalances
       IN  /\ \A i, j \in 1..Len(l) : l[i].rri = l[j].rri => i = j
           /\ \A i \in 1..Len(l) : IsIntLiteral(l[i].amount)

\* C9: on a success response with N entries of distinct RRIs get_balances
\* returns a mapping of N keys, each RRI mapped to the integer its amount
\* denotes, and the same mapping for every permutation of the entries.
C9_BalancesMapping ==
    \A c \in Calls :
        (calls[c].op = "get_balances" /\ DistinctBalances(calls[c].response)) =>
            LET l == calls[c].response.result.tokenBalances
                balances == calls[c].out.balances
            IN  /\ calls[c].out.status = "returned"
                /\ Cardinality(DOMAIN balances) = Len(l)
                /\ \A i \in 1..Len(l) :
                      /\ Has(balances, l[i].rri)
                      /\ balances[l[i].rri] = int(l[i].amount)
                /\ \A q \in Reorderings(l) :
                      get_balances([result |-> [tokenBalances |-> q]]).out
                          = calls[c].out

\* two tokens, one of them with an amount whose text is not its value
C9_Witness ==
    \E c \in Calls :
        /\ calls[c].op = "get_balances" /\ Done(c)
        /\ DistinctBalances(calls[c].response)
        /\ Len(calls[c].response.result.tokenBalances) = 2
        /\ calls[c].out.balances = [xrd |-> 10, btc |-> 1]
        /\ calls[c].response.result.tokenBalances[1] =
               [rri |-> "btc", amount |-> <<"0", "1">>]

\* C10: when get_balances returns a mapping, get_balance_of_token returns
\* 0 for a token that is not a key of it and the mapped amount otherwise.
C10_BalanceOfToken ==
    \A c \in Calls :
        (/\ calls[c].op = "get_balance_of_token"
         /\ get_balances(calls[c].response).out.status = "returned") =>
            LET balances == get_balances(calls[c].response).out.balances
                t == calls[c].token_rri
            IN  /\ calls[c].out.status = "returned"
                /\ ~Has(balances, t) => calls[c].out.amount = 0
                /\ Has(balances, t) => calls[c].out.amount = balances[t]

\* a token that is absent from a mapping that holds another token
C10_Witness ==
    \E c \in Calls :
        /\ calls[c].op = "get_balance_of_token" /\ Done(c)
        /\ calls[c].token_rri = "eth"
        /\ get_balances(calls[c].response).out.status = "returned"
        /\ Has(get_balances(calls[c].response).out.balances, "btc")
        /\ calls[c].out.amount = 0

\* the names of the Provider and Signer calls a call has made, in order
FnsOf(c) == [i \in DOMAIN calls[c].log |-> calls[c].log[i].fn]
SubmitOrder == <<"build_transaction", "sign", "public_key", "finalize_transaction">>

\* C11: a submit makes its calls in the order build_transaction, sign,
\* finalize_transaction, each after the one before has returned: sign only
\* after a build response without error key that holds blob and digest,
\* finalize_transaction only after sign has returned its signature.
C11_PhasesInOrder ==
    \A c \in Calls :
        Built(c) =>
            /\ Len(FnsOf(c)) <= Len(SubmitOrder)
            /\ FnsOf(c) = SubSeq(SubmitOrder, 1, Len(FnsOf(c)))
            /\ Called(c, "sign") =>
                  /\ ~Has(BuildResponseOf(c), "error")
                  /\ HasBlobAndDigest(BuildResponseOf(c))
            /\ Called(c, "finalize_transaction") =>
                  /\ Called(c, "sign")
                  /\ LogOf(c, "sign")[1].ret = calls[c].signed_data
                  /\ calls[c].signed_data # NoSignature

\* all three phases have run
C11_Witness ==
    \E c \in Calls :
        /\ Built(c) /\ Done(c)
        /\ FnsOf(c) = SubmitOrder
        /\ calls[c].out.status = "returned"

\* the number of times a call has called fn
Times(c, fn) == Len(LogOf(c, fn))

\* a response on which the phase that received it fails
BuildFails(response) == Has(response, "error") \/ ~HasBlobAndDigest(response)
FinalizeFails(response) == Has(response, "error") \/ ~HasIdentifier(response)

\* C12: a call makes each of its Provider and Signer calls at most once (a
\* balance call exactly one fetch), and a response on which a phase fails
\* is the last thing the call received: the call has ended by raising.
C12_NoRetries ==
    \A c \in Calls :
        /\ \A fn \in {"build_transaction", "sign", "public_key",
                      "finalize_transaction", "get_balances", "wallet_address"} :
              Times(c, fn) <= 1
        /\ calls[c].op \in {"get_balances", "get_balance_of_token"} =>
              /\ Times(c, "get_balances") = 1
              /\ get_balances(calls[c].response).out.status = "raised" =>
                    calls[c].out.status = "raised"
        /\ \A i \in DOMAIN calls[c].log :
              LET e == calls[c].log[i]
              IN  (\/ e.fn = "build_transaction" /\ BuildFails(e.ret)
                   \/ e.fn = "finalize_transaction" /\ FinalizeFails(e.ret)) =>
                      /\ i = Len(calls[c].log)
                      /\ Done(c)
                      /\ calls[c].out.status = "raised"
        /\ calls[c].out.status = "raised" => Done(c)

\* the finalize phase failed after a build and a signing that succeeded
C12_Witness ==
    \E c \in Calls :
        /\ Finalized(c) /\ Done(c)
        /\ Has(FinalizeResponseOf(c), "error")
        /\ calls[c].out.status = "raised"
        /\ Times(c, "build_transaction") = 1
        /\ Times(c, "sign") = 1
        /\ Times(c, "finalize_transaction") = 1

\* what a submit call signs, finalizes and returns comes from its own
\* build response, its own signing and its own finalize response
OwnData(c) ==
    /\ \A i \in DOMAIN calls[c].log :
          LET e == calls[c].log[i]
              transaction == BuildResponseOf(c).result.transaction
          IN  /\ e.fn = "sign" => e.kw.data = transaction.hashOfBlobToSign
              /\ e.fn = "finalize_transaction" =>
                    /\ e.kw.blob = transaction.blob
                    /\ e.kw.signature_der = LogOf(c, "sign")[1].ret
                    /\ e.kw.signature_der =
                           sign(wallet.signer, transaction.hashOfBlobToSign,
                                wallet.index)
    /\ (Built(c) /\ calls[c].out.status = "returned") =>
          LET result == FinalizeResponseOf(c).result
          IN  calls[c].out.txid =
                  IF Has(result, "txID") THEN result.txID
                  ELSE result.transaction.txID

\* C13: however the submit calls on a wallet follow one another or
\* interleave, each signs the digest of its own build response, finalizes
\* its own blob with its own signature and returns the identifier of its
\* own finalize response, and no step changes the wallet's provider,
\* signer or index.
C13_CallsShareNoState ==
    /\ [](\A c \in Calls : OwnData(c))
    /\ [][wallet' = wallet]_vars

\* two calls in flight at once with different blobs, digests and results
C13_Witness ==
    /\ Finalized("c1") /\ Done("c1") /\ calls["c1"].out.status = "returned"
    /\ Finalized("c2") /\ Done("c2") /\ calls["c2"].out.status = "returned"
    /\ calls["c1"].blob # calls["c2"].blob
    /\ calls["c1"].hash_of_blob_to_sign # calls["c2"].hash_of_blob_to_sign
    /\ calls["c1"].out.txid # calls["c2"].out.txid

\* the keyword arguments a submit call gave to build_transaction
BuildArgsOf(c) == calls[c].log[1].kw

\* C14: build_transaction receives the caller's encrypt_message flag, and
\* the actions, fee payer and message it receives are the caller's
\* whatever the flag is.
C14_FlagPassedThrough ==
    \A c \in Calls :
        Built(c) =>
            /\ Has(BuildArgsOf(c), "encrypt_message")
            /\ BuildArgsOf(c).encrypt_message = calls[c].encrypt_message
            /\ BuildArgsOf(c).actions = calls[c].actions
            /\ BuildArgsOf(c).fee_payer = calls[c].fee_payer
            /\ BuildArgsOf(c).message = calls[c].message

\* what the message of a raised exception lets the caller recover of the
\* error payload
PayloadOf(exc) ==
    IF Has(exc.response, "error") THEN exc.response.error ELSE exc.error

\* C15: the exception raised for an error key holds the value under that
\* key in its message, and its text tells the phase: the balance fetch,
\* the build or the finalize.
C15_RemoteErrorCarriesPayload ==
    /\ TextBalances # TextBuild /\ TextBuild # TextFinalize
    /\ TextBalances # TextFinalize
    /\ \A c \in Calls :
          /\ (calls[c].op # "idle" /\ Has(calls[c].response, "error")) =>
                /\ calls[c].out.status = "raised"
                /\ calls[c].out.exc.text = PhaseText(c)
                /\ PayloadOf(calls[c].out.exc) = calls[c].response.error
          /\ calls[c].out.exc.text \in {TextBalances, TextBuild, TextFinalize} =>
                /\ Has(calls[c].response, "error")
                /\ calls[c].out.exc.text = PhaseText(c)

\* a build-phase error with the second payload
C15_Witness ==
    \E c \in Calls :
        /\ Built(c) /\ Done(c)
        /\ ~Called(c, "finalize_transaction")
        /\ Has(calls[c].response, "error")
        /\ PayloadOf(calls[c].out.exc) = "rate limited"
        /\ calls[c].out.exc.text = TextBuild

\* C16: build_transaction receives the caller's actions, the same
\* elements in the same order, with the caller's fee payer and message.
C16_ActionsUnmodified ==
    \A c \in Calls :
        Built(c) =>
            /\ Len(BuildArgsOf(c).actions) = Len(calls[c].actions)
            /\ \A i \in 1..Len(calls[c].actions) :
                  BuildArgsOf(c).actions[i] = calls[c].actions[i]
            /\ BuildArgsOf(c).fee_payer = calls[c].fee_payer
            /\ BuildArgsOf(c).message = calls[c].message

\* two different actions and a message
C16_Witness ==
    \E c \in Calls :
        /\ Built(c)
        /\ calls[c].actions = <<"transfer", "stake">>
        /\ calls[c].message = "hello"
        /\ BuildArgsOf(c).actions = <<"transfer", "stake">>

\* C17: when the result of a finalize success envelope holds a top-level
\* txID and a different txID in its transaction record, submit returns
\* the top-level one.
C17_TopLevelFirst ==
    \A c \in Calls :
        (/\ Finalized(c)
         /\ ~Has(FinalizeResponseOf(c), "error")
         /\ Has(FinalizeResponseOf(c), "result")
         /\ Has(FinalizeResponseOf(c).result, "txID")
         /\ Has(FinalizeResponseOf(c).result, "transaction")
         /\ Has(FinalizeResponseOf(c).result.transaction, "txID")
         /\ FinalizeResponseOf(c).result.txID #
                FinalizeResponseOf(c).result.transaction.txID) =>
            /\ calls[c].out.status = "returned"
            /\ calls[c].out.txid = FinalizeResponseOf(c).result.txID
            /\ calls[c].out.txid # FinalizeResponseOf(c).result.transaction.txID

\* TX1 at the top level, TX2 in the transaction record
C17_Witness ==
    \E c \in Calls :
        /\ Finalized(c) /\ Done(c)
        /\ FinalizeResponseOf(c) =
               [result |-> [txID |-> "TX1", transaction |-> [txID |-> "TX2"]]]
        /\ calls[c].out.txid = "TX1"

\* a call of get_balances or of get_balance_of_token
BalanceCall(c) == calls[c].op \in {"get_balances", "get_balance_of_token"}

\* C18: every get_balances and get_balance_of_token call makes exactly
\* one fetch, for the address of the wallet's index on the provider's
\* network, and its outcome is the one that the response to that fetch
\* gives.
C18_BalancesRefetched ==
    \A c \in Calls :
        BalanceCall(c) =>
            LET mainnet == wallet.provider.network = "MAINNET"
                fetched == get_balances(calls[c].response).out
            IN  /\ FnsOf(c) = <<"wallet_address", "get_balances">>
                /\ calls[c].log[1].kw = [index |-> wallet.index, mainnet |-> mainnet]
                /\ calls[c].log[2].kw.address =
                       wallet_address(wallet.signer, wallet.index, mainnet)
                /\ calls[c].op = "get_balances" => calls[c].out = fetched
                /\ calls[c].op = "get_balance_of_token" =>
                       calls[c].out =
                           get_balance_of_token(fetched, calls[c].token_rri)

\* a fetch on the other network for index 1 that returned one balance
C18_Witness ==
    \E c \in Calls :
        /\ calls[c].op = "get_balances" /\ Done(c)
        /\ wallet.index = 1
        /\ wallet.provider.network = "STOKENET"
        /\ calls[c].out.status = "returned"
        /\ calls[c].out.balances = [xrd |-> 7]

\* C19: when the result of a finalize success envelope has a top-level
\* txID key, submit returns the value under it, also a null or an empty
\* one, and not the txID of the transaction record.
C19_TopLevelValueAsIs ==
    \A c \in Calls :
        (/\ Finalized(c)
         /\ ~Has(FinalizeResponseOf(c), "error")
         /\ Has(FinalizeResponseOf(c), "result")
         /\ Has(FinalizeResponseOf(c).result, "txID")
         /\ FinalizeResponseOf(c).result.txID \in {"", None}) =>
            /\ calls[c].out.status = "returned"
            /\ calls[c].out.txid = FinalizeResponseOf(c).result.txID
            /\ calls[c].out.txid \in {"", None}

\* an empty top-level txID next to TX1 in the transaction record
C19_Witness ==
    \E c \in Calls :
        /\ Finalized(c) /\ Done(c)
        /\ FinalizeResponseOf(c) =
               [result |-> [txID |-> "", transaction |-> [txID |-> "TX1"]]]
        /\ calls[c].out.status = "returned"
        /\ calls[c].out.txid = ""

\* a success response whose entries all have integer amounts
IntegerBalances(response) ==
    /\ ~Has(response, "error")
    /\ Has(response, "result")
    /\ Has(response.result, "tokenBalances")
    /\ \A i \in DOMAIN response.result.tokenBalances :
          IsIntLiteral(response.result.tokenBalances[i].amount)

\* the position of the last entry of l with the RRI k
LastWith(l, k) ==
    CHOOSE i \in DOMAIN l :
        l[i].rri = k /\ \A j \in DOMAIN l : l[j].rri = k => j <= i

\* C20: on a success response that holds an RRI more than once
\* get_balances returns a mapping with one key for each RRI of the list,
\* mapped to the amount of the last entry with that RRI.
C20_LastDuplicateWins ==
    \A c \in Calls :
        (calls[c].op = "get_balances" /\ IntegerBalances(calls[c].response)) =>
            LET l == calls[c].response.result.tokenBalances
                balances == calls[c].out.balances
            IN  /\ calls[c].out.status = "returned"
                /\ DOMAIN balances = {l[i].rri : i \in DOMAIN l}
                /\ \A k \in DOMAIN balances :
                      balances[k] = int(l[LastWith(l, k)].amount)

\* the same RRI twice, with 7 and then with 10
C20_Witness ==
    \E c \in Calls :
        /\ calls[c].op = "get_balances" /\ Done(c)
        /\ IntegerBalances(calls[c].response)
        /\ calls[c].response.result.tokenBalances =
               <<[rri |-> "xrd", amount |-> <<"7">>],
                 [rri |-> "xrd", amount |-> <<"1", "0">>]>>
        /\ calls[c].out.balances = [xrd |-> 10]

====
